---- MODULE Spec2Model ----
(***************************************************************************)
(* Model of scripts/batch_medical_processor.py: the command-line entry     *)
(* point main, MedicalBatchProcessor.process_documents_batch with its      *)
(* asyncio.Semaphore gate, process_single_document, the aggregation loop   *)
(* and print_batch_summary.                                                *)
(*                                                                         *)
(* The asyncio event loop is single threaded: a coroutine runs without     *)
(* interruption until it awaits something that is not ready.  Every action *)
(* below is one such uninterrupted run.  The external RAG call             *)
(* (setup_rag_system / process_document_complete / aquery) is an input: it *)
(* returns after some duration or raises an Exception with some message.   *)
(* The ready queue of the loop is first in, first out.                     *)
(* Exceptions are instances of Exception, the class process_single_document*)
(* catches and the aggregation loop tests for.                             *)
(***************************************************************************)
EXTENDS Integers, Sequences, FiniteSets, TLC

\* ------------------------------------------------------------------ bounds
\* Longest list of submitted file paths, and largest --max-workers.
MaxFiles == 3

\* ------------------------------------------------------------------ inputs
\* File names that may be named on the command line or lie in data/raw.
Names == <<"a.pdf", "b.pdf", "c.pdf">>

NameSet == {Names[k] : k \in 1..Len(Names)}

\* Python's None, where a field holds either None or a string.
NoneValue == "<None>"

\* Durations (time.time() differences) of an external call that returns.
OkTimes == {1, 2}

\* Durations of an external call that raises after having been awaited.
FaultTimes == {1}

\* str(e) of an exception raised inside the try block.
FaultMessages == {"parse error"}

\* str(e) of an exception raised outside the try block.
DispatchMessages == {"dispatch error"}

Max(S) == CHOOSE x \in S : \A y \in S : y <= x

\* Lists of n names; names are introduced in the order a.pdf, b.pdf, c.pdf
\* (every list of n names is one of these up to renaming).
NameLists(n) ==
    { [i \in 1..n |-> Names[f[i]]] :
        f \in { g \in [1..n -> 1..Len(Names)] :
                  \A i \in 1..n : g[i] <= 1 + Max({g[j] : j \in 1..(i-1)} \cup {0}) } }

AllNameLists == UNION { NameLists(n) : n \in 0..MaxFiles }

\* The orders in which Path.glob may list the files of a directory.
Perms(S) ==
    { s \in [1..Cardinality(S) -> S] :
        \A i, j \in 1..Cardinality(S) : s[i] = s[j] => i = j }

\* raw_dir / file_name
RawPath(n) == [parent |-> "data/raw", name |-> n]

\* Path.name
PathName(p) == p.name

\* ------------------------------------------------------------------ state
VARIABLES
    caller,        \* "main": the command line; "library": a direct caller
    args_all,      \* args.all
    args_files,    \* args.files; << >> is None (nargs="+" is never empty)
    api_key,       \* TRUE iff args.api_key or OPENAI_API_KEY is non-empty
    raw_dir,       \* data/raw: whether it exists and the *.pdf names in it
    max_workers,   \* args.max_workers / MedicalBatchProcessor.max_workers
    pc,            \* position of the caller
    file_paths,    \* the list handed to process_documents_batch
    semaphore,     \* asyncio.Semaphore: value and FIFO of waiting tasks
    ready,         \* event loop's FIFO of tasks scheduled to run
    task,          \* per submitted item: position of process_with_semaphore
    results,       \* per submitted item: the record being built / returned
    errlog,        \* items for which logger.error("Processing failed") ran
    batch_results, \* the summary returned by process_documents_batch
    report,        \* what print_batch_summary has printed
    raised         \* the exception that left the caller, "" if none

\* medical_rag_query.py, run_english_medical_queries.
VARIABLES
    q_pc,          \* position: "idle", "next", "awaiting", "sleeping", "done"
    q_list,        \* which of the three lists the function is in
    q_i,           \* i of enumerate(list, 1)
    q_log          \* what the function has logged and done so far, in order

qvars == <<q_pc, q_list, q_i, q_log>>

\* medical_rag_processor.py, process_medical_document and the example
\* queries that main runs after it.
VARIABLES
    env_timeout,            \* lightrag.utils.HEALTH_CHECK_TIMEOUT at entry
    HEALTH_CHECK_TIMEOUT,   \* the attribute of module lightrag.utils
    original_timeout,       \* the local of process_medical_document
    p_pc,                   \* position of the processor script
    p_q,                    \* index of the next example query
    p_seen                  \* the external calls made so far, each with the
                            \* HEALTH_CHECK_TIMEOUT in force during the call

pvars == <<env_timeout, HEALTH_CHECK_TIMEOUT, original_timeout, p_pc, p_q, p_seen>>

vars == <<caller, args_all, args_files, api_key, raw_dir, max_workers, pc,
          file_paths, semaphore, ready, task, results, errlog, batch_results,
          report, raised, qvars, pvars>>

inputs == <<caller, args_all, args_files, api_key, raw_dir, max_workers>>

N == Len(file_paths)

NoResult == [status |-> "none"]

NoSummary == [total_documents |-> -1]

NoReport == [printed |-> "nothing"]

\* data/raw: absent, empty, holding every name, or every name but b.pdf.
RawDirs ==
    { [exists |-> FALSE, pdfs |-> {}] } \cup
    { [exists |-> TRUE, pdfs |-> S] : S \in { {}, NameSet \ {"b.pdf"}, NameSet } }

\* An attribute of a Python module that is not set.
Unset == [set |-> FALSE]

\* process_medical_document is not part of the batch script
\* (MedicalBatchProcessor builds its RAG system itself).
ProcessorNotRun ==
    /\ env_timeout = Unset
    /\ HEALTH_CHECK_TIMEOUT = Unset
    /\ original_timeout = Unset
    /\ p_pc = "idle"
    /\ p_q = 1
    /\ p_seen = << >>

\* run_english_medical_queries is not part of the batch script.
QueriesNotRun ==
    /\ q_pc = "idle"
    /\ q_list = 1
    /\ q_i = 1
    /\ q_log = << >>

Init ==
    /\ caller \in {"main", "library"}
    /\ max_workers \in 1..MaxFiles
    /\ \/ /\ caller = "main"
          /\ args_all \in BOOLEAN
          /\ args_files \in AllNameLists
          /\ args_all => Len(args_files) <= 1
          /\ api_key \in BOOLEAN
          /\ raw_dir \in RawDirs
          /\ file_paths = << >>
       \/ /\ caller = "library"
          /\ args_all = FALSE
          /\ args_files = << >>
          /\ api_key = TRUE
          /\ raw_dir = [exists |-> FALSE, pdfs |-> {}]
          /\ file_paths \in { [i \in 1..Len(l) |-> RawPath(l[i])] : l \in AllNameLists }
    /\ pc = "start"
    /\ semaphore = [value |-> 0, waiters |-> << >>]
    /\ ready = << >>
    /\ task = << >>
    /\ results = << >>
    /\ errlog = {}
    /\ batch_results = NoSummary
    /\ report = NoReport
    /\ raised = ""
    /\ QueriesNotRun
    /\ ProcessorNotRun

\* ------------------------------------------------------------------ main
\* main, lines 360-389: the three checks that end the run with a return.
NoSelection == ~args_all /\ args_files = << >>

NoApiKey == ~api_key

\* get_medical_pdf_files: the lists it may return.
get_medical_pdf_files ==
    IF ~raw_dir.exists
    THEN { << >> }
    ELSE { [i \in 1..Len(s) |-> RawPath(s[i])] : s \in Perms(raw_dir.pdfs) }

\* main, lines 378-385: the named files that exist, in the order given.
ExistingFiles ==
    LET kept == SelectSeq(args_files, LAMBDA n : raw_dir.exists /\ n \in raw_dir.pdfs)
    IN  [i \in 1..Len(kept) |-> RawPath(kept[i])]

ResolvedLists == IF args_all THEN get_medical_pdf_files ELSE { ExistingFiles }

\* ConfigFault without the API key check.
ConfigFault_NoKeyCheck ==
    \/ NoSelection
    \/ \A l \in ResolvedLists : l = << >>

\* ConfigFault without the check for an empty list.
ConfigFault_AllowsEmpty ==
    \/ NoSelection
    \/ NoApiKey

\* main, lines 361, 369 and 387: the conditions of the three early returns.
ConfigFault ==
    \/ NoSelection
    \/ NoApiKey
    \/ \A l \in ResolvedLists : l = << >>

\* main returns early: nothing is constructed, nothing is processed.
MainConfigFault ==
    /\ caller = "main"
    /\ pc = "start"
    /\ ConfigFault
    /\ pc' = "returned"
    /\ UNCHANGED <<qvars, pvars, inputs, file_paths, semaphore, ready, task, results, errlog,
                   batch_results, report, raised>>

\* process_documents_batch, lines 207-229: the semaphore is created, one
\* coroutine per path is handed to gather, which schedules them in order.
StartBatch(paths) ==
    /\ file_paths' = paths
    /\ semaphore' = [value |-> max_workers, waiters |-> << >>]
    /\ ready' = [i \in 1..Len(paths) |-> i]
    /\ task' = [i \in 1..Len(paths) |-> "created"]
    /\ results' = [i \in 1..Len(paths) |-> NoResult]
    /\ pc' = "gather"
    /\ UNCHANGED <<qvars, pvars, inputs, errlog, batch_results, report, raised>>

MainStartBatch ==
    /\ caller = "main"
    /\ pc = "start"
    /\ ~ConfigFault
    /\ \E paths \in ResolvedLists : StartBatch(paths)

LibraryStartBatch ==
    /\ caller = "library"
    /\ pc = "start"
    /\ StartBatch(file_paths)

\* -------------------------------------------------------- asyncio.Semaphore
\* locked that looks at the queue only and not at the free slots.
locked_IgnoresValue(s) == s.waiters # << >>

\* Semaphore.locked(): no free slot, or somebody is already queued.
locked(s) == s.value = 0 \/ s.waiters # << >>

\* Acquired that never takes the slot off the count.
Acquired_NoDecrement(i) == semaphore

\* The semaphore once task i holds a slot: acquire() takes one on the fast
\* path; a task woken by release() was given its slot when it was woken.
Acquired(i) ==
    IF task[i] = "created"
    THEN [semaphore EXCEPT !.value = @ - 1]
    ELSE semaphore

\* Semaphore.release() on semaphore s: the slot goes to the longest waiting
\* task, which is scheduled to run; with nobody waiting the slot is free.
ReleasedSemaphore(s) ==
    IF s.waiters = << >>
    THEN [s EXCEPT !.value = @ + 1]
    ELSE [s EXCEPT !.waiters = Tail(@)]

\* Woken that schedules nobody: release() forgets the waiting task.
Woken_Nobody(s) == << >>

\* The task release() wakes: the longest waiting one, if there is one.
Woken(s) == IF s.waiters = << >> THEN << >> ELSE << Head(s.waiters) >>

\* ------------------------------------------------ process_single_document
\* Lines 150-159: the record as built before the try block.
NewRecord(p) ==
    [ file_name |-> PathName(p),
      file_path |-> p,
      status |-> "processing",
      error |-> NoneValue,
      processing_time |-> 0 ]

\* CompletedRecord that leaves the status as it was.
CompletedRecord_StaysProcessing(r, d) ==
    [ file_name |-> r.file_name,
      file_path |-> r.file_path,
      status |-> r.status,
      error |-> r.error,
      processing_time |-> d,
      test_query_result |-> "answer" ]

\* Lines 182-186: result.update on success.
CompletedRecord(r, d) ==
    [ file_name |-> r.file_name,
      file_path |-> r.file_path,
      status |-> "completed",
      error |-> r.error,
      processing_time |-> d,
      test_query_result |-> "answer" ]

\* FailedRecord that does not store the message.
FailedRecord_NoError(r, d, m) ==
    [r EXCEPT !.status = "failed", !.processing_time = d]

\* FailedRecord that forgets to set the status.
FailedRecord_KeepsStatus(r, d, m) ==
    [r EXCEPT !.processing_time = d, !.error = m]

\* Lines 191-195: result.update in the except branch.
FailedRecord(r, d, m) ==
    [r EXCEPT !.status = "failed", !.processing_time = d, !.error = m]

\* An exception object that gather returns in place of a record.
BareException(m) == [exception |-> "Exception", message |-> m]

\* isinstance(result, Exception)
IsException(r) == "exception" \in DOMAIN r

\* Task i holds a slot and is about to run process_single_document.
CanEnter(i) ==
    \/ task[i] = "created" /\ ~locked(semaphore)
    \/ task[i] = "granted"

\* Leave without the release: the slot of a task that raised is lost.
Leave_KeepsSlot(i, r) ==
    /\ semaphore' = Acquired(i)
    /\ ready' = Tail(ready)
    /\ task' = [task EXCEPT ![i] = "done"]
    /\ results' = [results EXCEPT ![i] = r]

\* Task i leaves the `async with` block with result r: the slot is released
\* and the task is done.
Leave(i, r) ==
    LET s == Acquired(i) IN
    /\ semaphore' = ReleasedSemaphore(s)
    /\ ready' = Tail(ready) \o Woken(s)
    /\ task' = [j \in 1..N |->
                  IF j = i THEN "done"
                  ELSE IF << j >> = Woken(s) THEN "granted"
                  ELSE task[j]]
    /\ results' = [results EXCEPT ![i] = r]

\* TaskWait that queues the task in front of those already waiting.
TaskWait_Prepends ==
    /\ pc = "gather"
    /\ ready # << >>
    /\ LET i == Head(ready) IN
       /\ task[i] = "created"
       /\ locked(semaphore)
       /\ semaphore' = [semaphore EXCEPT !.waiters = << i >> \o @]
       /\ task' = [task EXCEPT ![i] = "waiting"]
       /\ ready' = Tail(ready)
    /\ UNCHANGED <<qvars, pvars, inputs, pc, file_paths, results, errlog, batch_results, report, raised>>

\* Line 218, slow path: no slot is free, the task queues on the semaphore.
TaskWait ==
    /\ pc = "gather"
    /\ ready # << >>
    /\ LET i == Head(ready) IN
       /\ task[i] = "created"
       /\ locked(semaphore)
       /\ semaphore' = [semaphore EXCEPT !.waiters = Append(@, i)]
       /\ task' = [task EXCEPT ![i] = "waiting"]
       /\ ready' = Tail(ready)
    /\ UNCHANGED <<qvars, pvars, inputs, pc, file_paths, results, errlog, batch_results, report, raised>>

\* Lines 218-219 and 150-172: the task takes its slot, builds the record
\* and suspends in the external call.
TaskEnter ==
    /\ pc = "gather"
    /\ ready # << >>
    /\ LET i == Head(ready) IN
       /\ CanEnter(i)
       /\ semaphore' = Acquired(i)
       /\ task' = [task EXCEPT ![i] = "running"]
       /\ results' = [results EXCEPT ![i] = NewRecord(file_paths[i])]
       /\ ready' = Tail(ready)
    /\ UNCHANGED <<qvars, pvars, inputs, pc, file_paths, errlog, batch_results, report, raised>>

\* Lines 161-198: an exception raised inside the try block before the first
\* suspension (mkdir, setup_rag_system); no time has passed.
TaskEnterFault ==
    /\ pc = "gather"
    /\ ready # << >>
    /\ LET i == Head(ready) IN
       /\ CanEnter(i)
       /\ \E m \in FaultMessages :
            Leave(i, FailedRecord(NewRecord(file_paths[i]), 0, m))
       /\ errlog' = errlog \cup {i}
    /\ UNCHANGED <<qvars, pvars, inputs, pc, file_paths, batch_results, report, raised>>

\* Lines 150-159 or 218: an exception raised outside the try block leaves
\* the coroutine; gather keeps the exception object as the item's result.
TaskEnterBare ==
    /\ pc = "gather"
    /\ ready # << >>
    /\ LET i == Head(ready) IN
       /\ CanEnter(i)
       /\ \E m \in DispatchMessages : Leave(i, BareException(m))
    /\ UNCHANGED <<qvars, pvars, inputs, pc, file_paths, errlog, batch_results, report, raised>>

\* Lines 222-229: gather schedules the first step of every task with
\* call_soon, in submission order and in one go; the loop runs these steps
\* before any callback scheduled later, so a task suspended in its external
\* call is resumed only after every task has taken its first step.
FirstStepsTaken == \A j \in 1..N : task[j] # "created"

\* Lines 172-188 and 198: the external calls return; the task resumes,
\* marks the record completed and leaves.
TaskComplete(i) ==
    /\ pc = "gather"
    /\ task[i] = "running"
    /\ FirstStepsTaken
    /\ \E d \in OkTimes :
         /\ semaphore' = ReleasedSemaphore(semaphore)
         /\ ready' = ready \o Woken(semaphore)
         /\ task' = [j \in 1..N |->
                       IF j = i THEN "done"
                       ELSE IF << j >> = Woken(semaphore) THEN "granted"
                       ELSE task[j]]
         /\ results' = [results EXCEPT ![i] = CompletedRecord(results[i], d)]
    /\ UNCHANGED <<qvars, pvars, inputs, pc, file_paths, errlog, batch_results, report, raised>>

\* Lines 190-198: an external call raises; the task resumes in the except
\* branch, marks the record failed, logs the error and leaves.
TaskFail(i) ==
    /\ pc = "gather"
    /\ task[i] = "running"
    /\ FirstStepsTaken
    /\ \E d \in FaultTimes, m \in FaultMessages :
         /\ semaphore' = ReleasedSemaphore(semaphore)
         /\ ready' = ready \o Woken(semaphore)
         /\ task' = [j \in 1..N |->
                       IF j = i THEN "done"
                       ELSE IF << j >> = Woken(semaphore) THEN "granted"
                       ELSE task[j]]
         /\ results' = [results EXCEPT ![i] = FailedRecord(results[i], d, m)]
    /\ errlog' = errlog \cup {i}
    /\ UNCHANGED <<qvars, pvars, inputs, pc, file_paths, batch_results, report, raised>>

\* ------------------------------------------------ the aggregation loop
\* Put that keeps an entry already stored under the key.
Put_KeepsFirst(d, k, r) ==
    [n \in DOMAIN d \cup {k} |-> IF n \in DOMAIN d THEN d[n] ELSE r]

\* batch_results["documents"][k] = r
Put(d, k, r) == [n \in DOMAIN d \cup {k} |-> IF n = k THEN r ELSE d[n]]

\* Lines 232-238.
EmptySummary(paths) ==
    [ total_documents |-> Len(paths),
      completed |-> 0,
      failed |-> 0,
      total_time |-> 0,
      documents |-> << >> ]

\* AggregateEntry that adds the time of completed records only.
AggregateEntry_TimeOfCompleted(acc, paths, res, i) ==
    IF IsException(res[i])
    THEN [acc EXCEPT
            !.documents = Put(@, PathName(paths[i]),
                              [status |-> "failed", error |-> res[i].message]),
            !.failed = @ + 1]
    ELSE [acc EXCEPT
            !.documents = Put(@, res[i].file_name, res[i]),
            !.completed = IF res[i].status = "completed" THEN @ + 1 ELSE @,
            !.failed = IF res[i].status = "completed" THEN @ ELSE @ + 1,
            !.total_time = IF res[i].status = "completed"
                           THEN @ + res[i].processing_time ELSE @]

\* AggregateEntry that files a bare exception under the first path's name.
AggregateEntry_BareUnderFirstName(acc, paths, res, i) ==
    IF IsException(res[i])
    THEN [acc EXCEPT
            !.documents = Put(@, PathName(paths[1]),
                              [status |-> "failed", error |-> res[i].message]),
            !.failed = @ + 1]
    ELSE [acc EXCEPT
            !.documents = Put(@, res[i].file_name, res[i]),
            !.completed = IF res[i].status = "completed" THEN @ + 1 ELSE @,
            !.failed = IF res[i].status = "completed" THEN @ ELSE @ + 1,
            !.total_time = @ + res[i].processing_time]

\* AggregateEntry with the bare-exception branch forgetting its count.
AggregateEntry_DropsBare(acc, paths, res, i) ==
    IF IsException(res[i])
    THEN [acc EXCEPT
            !.documents = Put(@, PathName(paths[i]),
                              [status |-> "failed", error |-> res[i].message])]
    ELSE [acc EXCEPT
            !.documents = Put(@, res[i].file_name, res[i]),
            !.completed = IF res[i].status = "completed" THEN @ + 1 ELSE @,
            !.failed = IF res[i].status = "completed" THEN @ ELSE @ + 1,
            !.total_time = @ + res[i].processing_time]

\* Lines 241-254: one turn of the loop, for entry i of gather's list.
AggregateEntry(acc, paths, res, i) ==
    IF IsException(res[i])
    THEN [acc EXCEPT
            !.documents = Put(@, PathName(paths[i]),
                              [status |-> "failed", error |-> res[i].message]),
            !.failed = @ + 1]
    ELSE [acc EXCEPT
            !.documents = Put(@, res[i].file_name, res[i]),
            !.completed = IF res[i].status = "completed" THEN @ + 1 ELSE @,
            !.failed = IF res[i].status = "completed" THEN @ ELSE @ + 1,
            !.total_time = @ + res[i].processing_time]

RECURSIVE AggregateFrom(_, _, _, _)
\* Line 240: for i, result in enumerate(results), from entry i on.
AggregateFrom(acc, paths, res, i) ==
    IF i > Len(res)
    THEN acc
    ELSE AggregateFrom(AggregateEntry(acc, paths, res, i), paths, res, i + 1)

\* Lines 231-256.
Aggregate(paths, res) == AggregateFrom(EmptySummary(paths), paths, res, 1)

\* BatchReturn that gives up on the items still being processed.
BatchReturn_AbandonsRunning ==
    /\ pc = "gather"
    /\ \A i \in 1..N : task[i] \in {"done", "running"}
    /\ batch_results' = Aggregate(file_paths, results)
    /\ pc' = "aggregated"
    /\ UNCHANGED <<qvars, pvars, inputs, file_paths, semaphore, ready, task, results, errlog,
                   report, raised>>

\* BatchReturn that empties the list of results while it reads it.
BatchReturn_ConsumesResults ==
    /\ pc = "gather"
    /\ \A i \in 1..N : task[i] = "done"
    /\ batch_results' = Aggregate(file_paths, results)
    /\ results' = << >>
    /\ pc' = "aggregated"
    /\ UNCHANGED <<qvars, pvars, inputs, file_paths, semaphore, ready, task, errlog,
                   report, raised>>

\* Line 229 onwards: every coroutine is done, gather returns the list of
\* results in submission order and the summary is built and returned.
BatchReturn ==
    /\ pc = "gather"
    /\ \A i \in 1..N : task[i] = "done"
    /\ batch_results' = Aggregate(file_paths, results)
    /\ pc' = "aggregated"
    /\ UNCHANGED <<qvars, pvars, inputs, file_paths, semaphore, ready, task, results, errlog,
                   report, raised>>

\* ---------------------------------------------------- print_batch_summary
\* Rounded that cuts the digits off.
Rounded_Truncates(num, den) == num \div den

\* num/den rounded to the nearest integer, ties to even: what the format
\* specs .1f and .2f do to a quotient scaled by 10 and by 100.
Rounded(num, den) ==
    LET q == num \div den
        r == num % den
    IN  IF 2 * r < den THEN q
        ELSE IF 2 * r > den THEN q + 1
        ELSE IF q % 2 = 0 THEN q ELSE q + 1

\* Lines 263-266: the counts and the total time (in hundredths, :.2f).
HeaderLines(res) ==
    << [line |-> "Total documents", value |-> res.total_documents],
       [line |-> "Successfully processed", value |-> res.completed],
       [line |-> "Processing failed", value |-> res.failed],
       [line |-> "Total time", value |-> res.total_time * 100] >>

\* Line 267: completed/total_documents*100 in tenths of a percent (:.1f).
SuccessRateLine(res) ==
    << [line |-> "Success rate",
        value |-> Rounded(res.completed * 1000, res.total_documents)] >>

\* AverageLine dividing by the number of documents.
AverageLine_PerDocument(res) ==
    IF res.completed > 0
    THEN << [line |-> "Average processing time",
             value |-> Rounded(res.total_time * 100, res.total_documents)] >>
    ELSE << >>

\* Lines 269-271: total_time/completed in hundredths of a second (:.2f).
AverageLine(res) ==
    IF res.completed > 0
    THEN << [line |-> "Average processing time",
             value |-> Rounded(res.total_time * 100, res.completed)] >>
    ELSE << >>

\* Lines 274-280: the lines printed for one entry of documents; time is in
\* hundredths of a second, -1 when no time line is printed.
DetailLines(doc) ==
    [ status |-> doc.status,
      time |-> IF doc.status = "completed" THEN doc.processing_time * 100 ELSE -1,
      error |-> IF doc.status # "completed" /\ "error" \in DOMAIN doc
                THEN doc.error ELSE NoneValue ]

\* Lines 412-418 and 258-282: the caller prints the summary.  The division
\* of line 267 raises ZeroDivisionError when total_documents is 0; main's
\* except branch logs it and raises it again.  (Line 413 adds the wall-clock
\* total_batch_time to the summary; nothing reads it afterwards.)
PrintSummary ==
    /\ pc = "aggregated"
    /\ IF batch_results.total_documents = 0
       THEN /\ report' = [printed |-> "header",
                          lines |-> HeaderLines(batch_results),
                          details |-> << >>]
            /\ raised' = "ZeroDivisionError"
            /\ pc' = "raised"
       ELSE /\ report' = [printed |-> "all",
                          lines |-> HeaderLines(batch_results)
                                    \o SuccessRateLine(batch_results)
                                    \o AverageLine(batch_results),
                          details |-> [n \in DOMAIN batch_results.documents |->
                                         DetailLines(batch_results.documents[n])]]
            /\ raised' = raised
            /\ pc' = "finished"
    /\ UNCHANGED <<qvars, pvars, inputs, file_paths, semaphore, ready, task, results, errlog,
                   batch_results>>

Next ==
    \/ MainConfigFault
    \/ MainStartBatch
    \/ LibraryStartBatch
    \/ TaskWait
    \/ TaskEnter
    \/ TaskEnterFault
    \/ TaskEnterBare
    \/ \E i \in 1..N : TaskComplete(i)
    \/ \E i \in 1..N : TaskFail(i)
    \/ BatchReturn
    \/ PrintSummary

Spec == Init /\ [][Next]_vars
\* The external calls return or raise and the event loop runs what is
\* ready: no step that can be taken is put off for ever.
FairSpec == Spec /\ WF_vars(Next)

\* The program when the external call of the first item never returns and
\* never raises: there is no timeout and no cancellation, so nothing else
\* ends that item.  Everything else runs as before.
StuckNext ==
    \/ MainConfigFault
    \/ MainStartBatch
    \/ LibraryStartBatch
    \/ TaskWait
    \/ TaskEnter
    \/ TaskEnterFault
    \/ TaskEnterBare
    \/ \E i \in 2..N : TaskComplete(i)
    \/ \E i \in 2..N : TaskFail(i)
    \/ BatchReturn
    \/ PrintSummary

StuckSpec == Init /\ [][StuckNext]_vars /\ WF_vars(StuckNext)

\* ------------------------------- medical_rag_query.py: predefined queries
\* The variables of the batch script.
bvars == <<caller, args_all, args_files, api_key, raw_dir, max_workers, pc,
           file_paths, semaphore, ready, task, results, errlog, batch_results,
           report, raised>>

\* The batch script is not part of the query script.
BatchNotRun ==
    /\ caller = "library"
    /\ args_all = FALSE
    /\ args_files = << >>
    /\ api_key = TRUE
    /\ raw_dir = [exists |-> FALSE, pdfs |-> {}]
    /\ max_workers = 1
    /\ pc = "idle"
    /\ file_paths = << >>
    /\ semaphore = [value |-> 0, waiters |-> << >>]
    /\ ready = << >>
    /\ task = << >>
    /\ results = << >>
    /\ errlog = {}
    /\ batch_results = NoSummary
    /\ report = NoReport
    /\ raised = ""

\* Lines 157-161, 189-192 and 220-223: the three lists, each query
\* abbreviated to a word of its text.
basic_queries == << "content", "imaging", "anatomical" >>

technical_queries == << "differences", "findings" >>

clinical_queries == << "scenarios", "criteria" >>

QueryLists == << basic_queries, technical_queries, clinical_queries >>

\* Line 184: asyncio.sleep(10).
RateLimitPause == 10

\* str(e) of an exception raised by rag.aquery.
QueryFaultMessages == {"rate limit"}

\* Entry of run_english_medical_queries.
QueryInit ==
    /\ BatchNotRun
    /\ ProcessorNotRun
    /\ q_pc = "next"
    /\ q_list = 1
    /\ q_i = 1
    /\ q_log = << >>

\* The for loops: the next query of the list, else the first query of the
\* next list, else the end of the function.
Advance ==
    IF q_i < Len(QueryLists[q_list])
    THEN /\ q_i' = q_i + 1
         /\ q_list' = q_list
         /\ q_pc' = "next"
    ELSE IF q_list < Len(QueryLists)
    THEN /\ q_i' = 1
         /\ q_list' = q_list + 1
         /\ q_pc' = "next"
    ELSE /\ q_i' = q_i
         /\ q_list' = q_list
         /\ q_pc' = "done"

Event(k) == [kind |-> k, list |-> q_list, i |-> q_i, query |-> QueryLists[q_list][q_i]]

\* Lines 165-169: the query is logged and rag.aquery is awaited.
IssueQuery ==
    /\ q_pc = "next"
    /\ q_log' = Append(q_log, Event("query"))
    /\ q_pc' = "awaiting"
    /\ UNCHANGED <<bvars, pvars, q_list, q_i>>

\* Lines 178-184: rag.aquery returns; the answer is logged, and unless the
\* query is the last of its list the pause is announced and begun.
QueryReturns ==
    /\ q_pc = "awaiting"
    /\ IF q_i < Len(QueryLists[q_list])
       THEN /\ q_log' = q_log \o << Event("answer"),
                                    [Event("sleep") EXCEPT !.query = RateLimitPause] >>
            /\ q_pc' = "sleeping"
            /\ UNCHANGED <<q_list, q_i>>
       ELSE /\ q_log' = Append(q_log, Event("answer"))
            /\ Advance
    /\ UNCHANGED <<bvars, pvars>>

\* QueryRaises that lets the exception leave the function.
QueryRaises_Propagates ==
    /\ q_pc = "awaiting"
    /\ \E m \in QueryFaultMessages :
         q_log' = Append(q_log, [Event("error") EXCEPT !.query = m])
    /\ q_pc' = "done"
    /\ UNCHANGED <<bvars, pvars, q_list, q_i>>

\* Lines 185-186: rag.aquery raises; the error is logged and the loop goes
\* on, without a pause.
QueryRaises ==
    /\ q_pc = "awaiting"
    /\ \E m \in QueryFaultMessages :
         q_log' = Append(q_log, [Event("error") EXCEPT !.query = m])
    /\ Advance
    /\ UNCHANGED <<bvars, pvars>>

\* Line 184: asyncio.sleep returns.
SleepReturns ==
    /\ q_pc = "sleeping"
    /\ Advance
    /\ UNCHANGED <<bvars, pvars, q_log>>

QueryNext == IssueQuery \/ QueryReturns \/ QueryRaises \/ SleepReturns

QuerySpec == QueryInit /\ [][QueryNext]_vars

\* ------------------------- medical_rag_processor.py: one medical document
\* Line 178: the default of getattr.
DefaultTimeout == 75

\* Line 179: the value set while RAGAnything is constructed.
LongTimeout == 600

\* A module attribute set to v.
TimeoutOf(v) == [set |-> TRUE, value |-> v]

\* getattr(module, name, default)
getattr(a, default) == IF a.set THEN a.value ELSE default

\* What lightrag.utils may hold when process_medical_document is entered:
\* nothing (a version without the attribute), or some number.
EntryTimeouts == {Unset} \cup {TimeoutOf(v) : v \in {30, DefaultTimeout, LongTimeout}}

\* Lines 212-263: the queries of medical_query_examples, each abbreviated
\* to a word: four basic ones, three about images, one multimodal.
example_queries ==
    << "content", "imaging", "anatomical", "diseases",
       "images", "signs", "differences", "table" >>

\* str(e) of an exception raised by an external call of the processor.
ProcessorFaultMessages == {"connection error"}

\* main, lines 377-385: process_medical_document is entered.
ProcessorInit ==
    /\ BatchNotRun
    /\ QueriesNotRun
    /\ env_timeout \in EntryTimeouts
    /\ HEALTH_CHECK_TIMEOUT = env_timeout
    /\ original_timeout = Unset
    /\ p_pc = "entered"
    /\ p_q = 1
    /\ p_seen = << >>

\* An external call of the given kind, made under the timeout in force.
Call(kind, outcome) ==
    [call |-> kind, outcome |-> outcome, timeout |-> HEALTH_CHECK_TIMEOUT]

\* Lines 106-175 and 201-203: an exception before the timeout is touched
\* (RAGAnythingConfig, EmbeddingFunc, import lightrag.utils) is logged and
\* raised again.
SetupRaises ==
    /\ p_pc = "entered"
    /\ \E m \in ProcessorFaultMessages : p_seen' = Append(p_seen, Call("setup", m))
    /\ p_pc' = "raised"
    /\ UNCHANGED <<bvars, qvars, env_timeout, HEALTH_CHECK_TIMEOUT, original_timeout, p_q>>

\* Lines 178-179: the value in force is read and the timeout is raised.
RaiseTimeout ==
    /\ p_pc = "entered"
    /\ original_timeout' = TimeoutOf(getattr(HEALTH_CHECK_TIMEOUT, DefaultTimeout))
    /\ HEALTH_CHECK_TIMEOUT' = TimeoutOf(LongTimeout)
    /\ p_pc' = "constructing"
    /\ UNCHANGED <<bvars, qvars, env_timeout, p_q, p_seen>>

\* Lines 181-190: RAGAnything(...) returns; the finally clause puts the
\* value read back.
Constructed ==
    /\ p_pc = "constructing"
    /\ p_seen' = Append(p_seen, Call("construct", "ok"))
    /\ HEALTH_CHECK_TIMEOUT' = original_timeout
    /\ p_pc' = "processing"
    /\ UNCHANGED <<bvars, qvars, env_timeout, original_timeout, p_q>>

\* ConstructRaises without the finally clause: the value is put back only
\* when the constructor returns.
ConstructRaises_NoRestore ==
    /\ p_pc = "constructing"
    /\ \E m \in ProcessorFaultMessages : p_seen' = Append(p_seen, Call("construct", m))
    /\ p_pc' = "raised"
    /\ UNCHANGED <<bvars, qvars, env_timeout, HEALTH_CHECK_TIMEOUT, original_timeout, p_q>>

\* Lines 181-190 and 201-203: RAGAnything(...) raises; the finally clause
\* puts the value read back, the exception is logged and raised again.
ConstructRaises ==
    /\ p_pc = "constructing"
    /\ \E m \in ProcessorFaultMessages : p_seen' = Append(p_seen, Call("construct", m))
    /\ HEALTH_CHECK_TIMEOUT' = original_timeout
    /\ p_pc' = "raised"
    /\ UNCHANGED <<bvars, qvars, env_timeout, original_timeout, p_q>>

\* Lines 193-199: rag.process_document_complete returns, and main goes on
\* to medical_query_examples.
Processed ==
    /\ p_pc = "processing"
    /\ p_seen' = Append(p_seen, Call("process", "ok"))
    /\ p_pc' = "querying"
    /\ UNCHANGED <<bvars, qvars, env_timeout, HEALTH_CHECK_TIMEOUT, original_timeout, p_q>>

\* Lines 193-203: rag.process_document_complete raises.
ProcessRaises ==
    /\ p_pc = "processing"
    /\ \E m \in ProcessorFaultMessages : p_seen' = Append(p_seen, Call("process", m))
    /\ p_pc' = "raised"
    /\ UNCHANGED <<bvars, qvars, env_timeout, HEALTH_CHECK_TIMEOUT, original_timeout, p_q>>

\* Lines 220-263: one query of medical_query_examples, answered or raising;
\* either way it is logged and the next one follows.
ExampleQuery ==
    /\ p_pc = "querying"
    /\ \E o \in {"ok"} \cup ProcessorFaultMessages :
         p_seen' = Append(p_seen, Call(example_queries[p_q], o))
    /\ IF p_q < Len(example_queries)
       THEN p_q' = p_q + 1 /\ p_pc' = p_pc
       ELSE p_q' = p_q /\ p_pc' = "done"
    /\ UNCHANGED <<bvars, qvars, env_timeout, HEALTH_CHECK_TIMEOUT, original_timeout>>

ProcessorNext ==
    \/ SetupRaises
    \/ RaiseTimeout
    \/ Constructed
    \/ ConstructRaises
    \/ Processed
    \/ ProcessRaises
    \/ ExampleQuery

ProcessorSpec == ProcessorInit /\ [][ProcessorNext]_vars

\* ------------------------------------------------------------------ claims
\* process_documents_batch has returned its summary.
AfterBatch == pc \in {"aggregated", "finished", "raised"}

\* The items gather has been given.
Items == DOMAIN task

Holding == {i \in Items : task[i] = "running"}

Succeeded == {i \in Items : ~IsException(results[i]) /\ results[i].status = "completed"}

CaughtFault == {i \in Items : ~IsException(results[i]) /\ results[i].status = "failed"}

BareFault == {i \in Items : IsException(results[i])}

HasUniqueName(i) ==
    \A j \in Items : PathName(file_paths[j]) = PathName(file_paths[i]) => j = i

\* C1: when process_documents_batch has returned for N submitted paths, its
\* summary has completed + failed = total_documents = N, whatever the mix of
\* successes, caught faults and bare exceptions and whatever max_workers.
C1_CountsAddUp ==
    AfterBatch =>
        /\ batch_results.total_documents = N
        /\ batch_results.completed + batch_results.failed = N

\* A batch of three with one success, one caught fault and one bare
\* exception has returned.
C1_Witness ==
    /\ pc = "aggregated"
    /\ N = 3
    /\ Succeeded # {} /\ CaughtFault # {} /\ BareFault # {}
    /\ batch_results.completed = 1
    /\ batch_results.failed = 2

\* C2: in every state of a batch run, at most max_workers invocations of
\* process_single_document have started and not yet ended.
C2_AtMostKInside == Cardinality(Holding) <= max_workers

\* The gate is full and another item is queued behind it.
C2_Witness ==
    /\ pc = "gather"
    /\ N > max_workers
    /\ Cardinality(Holding) = max_workers
    /\ \E i \in Items : task[i] = "waiting"

\* C3: the documents mapping of the summary holds exactly one record per
\* submitted item, N entries, each under the name of its item, also when two
\* submitted paths have the same file name.
C3_OneRecordPerItem ==
    AfterBatch =>
        /\ Cardinality(DOMAIN batch_results.documents) = N
        /\ \A i \in Items : PathName(file_paths[i]) \in DOMAIN batch_results.documents

\* C4: a fault of one item never keeps another item from starting or from
\* reaching its terminal status: while items are unfinished some item is
\* inside the gate or scheduled to run, and in the summary every item whose
\* own call succeeded is counted, and listed, as completed.
C4_FaultIsolation ==
    /\ (pc = "gather" /\ \E i \in Items : task[i] # "done")
           => (ready # << >> \/ Holding # {})
    /\ AfterBatch =>
        /\ \A i \in Items : task[i] = "done"
        /\ batch_results.completed = Cardinality(Succeeded)
        /\ batch_results.failed = N - Cardinality(Succeeded)
        /\ \A i \in Succeeded :
              HasUniqueName(i) =>
                 batch_results.documents[PathName(file_paths[i])].status = "completed"

\* Items [A fails, B succeeds, C succeeds] with two workers: completed = 2
\* and failed = 1.
C4_Witness ==
    /\ pc = "aggregated"
    /\ N = 3
    /\ max_workers = 2
    /\ 1 \in CaughtFault
    /\ Succeeded = {2, 3}
    /\ batch_results.completed = 2
    /\ batch_results.failed = 1

\* print_batch_summary has been called and has returned or raised.
Printed == pc \in {"finished", "raised"}

ReportHas(l) == \E k \in 1..Len(report.lines) : report.lines[k].line = l

ReportValue(l) ==
    report.lines[CHOOSE k \in 1..Len(report.lines) : report.lines[k].line = l].value

\* C5: rendering the report of a summary with total_documents = 0 does not
\* end in a division by zero.
C5_NoDivisionByZero ==
    (Printed /\ batch_results.total_documents = 0) => raised # "ZeroDivisionError"

\* C6: print_batch_summary prints the average processing time if and only
\* if completed > 0, and the value printed is total_time / completed (to
\* the two decimals of the format).
C6_AverageIffCompleted ==
    Printed =>
        /\ ReportHas("Average processing time") <=> batch_results.completed > 0
        /\ ReportHas("Average processing time") =>
              LET shown == ReportValue("Average processing time")
                  exact == batch_results.total_time * 100
                  c == batch_results.completed
              IN  /\ 2 * (shown * c - exact) <= c
                  /\ 2 * (exact - shown * c) <= c

\* A report with an average that is not the total time: 3 seconds over 2
\* completed documents, with a third document that failed at once.
C6_Witness ==
    /\ pc = "finished"
    /\ batch_results.total_documents = 3
    /\ batch_results.completed = 2
    /\ batch_results.total_time = 3
    /\ ReportHas("Average processing time")
    /\ ReportValue("Average processing time") = 150

\* The end-to-end scenario: [a.pdf, b.pdf, c.pdf] with two workers, a.pdf
\* and c.pdf succeed after 1 and 2, b.pdf raises "parse error".
EndToEnd ==
    /\ pc = "finished"
    /\ file_paths = << RawPath("a.pdf"), RawPath("b.pdf"), RawPath("c.pdf") >>
    /\ max_workers = 2
    /\ Succeeded = {1, 3}
    /\ results[1].processing_time = 1
    /\ results[3].processing_time = 2
    /\ CaughtFault = {2}
    /\ results[2].error = "parse error"

EndToEndCounts ==
    /\ batch_results.total_documents = 3
    /\ batch_results.completed = 2
    /\ batch_results.failed = 1
    /\ batch_results.documents["b.pdf"].status = "failed"
    /\ batch_results.documents["b.pdf"].error = "parse error"
    /\ ReportValue("Success rate") = 667

\* C7 as stated: the scenario always ends with total = 3, completed = 2,
\* failed = 1, b.pdf failed with "parse error", success rate 66.7% and a
\* cumulative duration of 3.
C7_EndToEnd_Original ==
    EndToEnd => (EndToEndCounts /\ batch_results.total_time = 3)

\* C7 as amended: the same, with a cumulative duration of 3 plus the time
\* b.pdf ran before it raised.
C7_EndToEnd ==
    EndToEnd =>
        /\ EndToEndCounts
        /\ batch_results.total_time = 3 + results[2].processing_time
        /\ ReportValue("Total time") = (3 + results[2].processing_time) * 100

\* The scenario, with b.pdf raising after one unit of time.
C7_Witness == EndToEnd /\ results[2].processing_time = 1

\* C8: in main, if neither --all nor --files is given, or there is no API
\* key, or no existing file is selected (an absent data/raw included), then
\* process_documents_batch is never invoked and no item is processed.
C8_ConfigFaultStopsRun ==
    ( /\ caller = "main"
      /\ \/ ~args_all /\ args_files = << >>
         \/ ~api_key
         \/ args_all /\ (~raw_dir.exists \/ raw_dir.pdfs = {})
         \/ ~args_all /\ \A k \in 1..Len(args_files) :
                            ~raw_dir.exists \/ args_files[k] \notin raw_dir.pdfs )
    => /\ pc \in {"start", "returned"}
       /\ file_paths = << >>
       /\ task = << >>
       /\ results = << >>
       /\ errlog = {}
       /\ batch_results = NoSummary
       /\ report = NoReport

\* main has returned for --files naming files of a data/raw that is absent.
C8_Witness ==
    /\ caller = "main"
    /\ pc = "returned"
    /\ api_key
    /\ ~args_all
    /\ Len(args_files) = 2
    /\ ~raw_dir.exists

\* C9: whatever items raise, process_documents_batch does not raise and its
\* summary holds every faulting item as data: it is counted as failed and
\* listed under its name, with status failed.
C9_FaultsBecomeData ==
    /\ pc \in {"gather", "aggregated"} => raised = ""
    /\ AfterBatch =>
        /\ batch_results.failed = Cardinality(CaughtFault \cup BareFault)
        /\ \A i \in CaughtFault \cup BareFault :
              /\ PathName(file_paths[i]) \in DOMAIN batch_results.documents
              /\ HasUniqueName(i) =>
                    batch_results.documents[PathName(file_paths[i])].status = "failed"

\* A batch in which every item raised, one of them outside the try block,
\* has returned its summary.
C9_Witness ==
    /\ pc = "aggregated"
    /\ N = 3
    /\ Succeeded = {}
    /\ BareFault # {}
    /\ CaughtFault # {}
    /\ batch_results.failed = 3

\* C10: once main has started the batch, it reaches print_batch_summary and
\* ends normally, however many items failed.
C10_MainEndsNormally ==
    (caller = "main" /\ pc = "gather") ~> (pc = "finished" /\ report.printed = "all")

\* main has ended normally after a batch in which every item failed.
C10_Witness ==
    /\ caller = "main"
    /\ pc = "finished"
    /\ N = 2
    /\ Succeeded = {}
    /\ raised = ""
    /\ report.printed = "all"

\* The items that returned a structured record.
Structured == {i \in Items : ~IsException(results[i])}

RECURSIVE SumOfTimes(_)
\* The sum of processing_time over the items of S.
SumOfTimes(S) ==
    IF S = {} THEN 0
    ELSE LET i == CHOOSE x \in S : TRUE
         IN  results[i].processing_time + SumOfTimes(S \ {i})

\* The last submitted item with the name n.
LastNamed(n) == Max({i \in Items : PathName(file_paths[i]) = n})

\* What the summary lists for item i.
Listed(i) ==
    IF IsException(results[i])
    THEN [status |-> "failed", error |-> results[i].message]
    ELSE results[i]

\* The summary as a function of the submitted list and the per-item outcomes
\* alone, with no reference to the order in which the items ended.
SummaryOfOutcomes ==
    [ total_documents |-> N,
      completed |-> Cardinality(Succeeded),
      failed |-> N - Cardinality(Succeeded),
      total_time |-> SumOfTimes(Structured),
      documents |-> [n \in {PathName(file_paths[i]) : i \in Items} |->
                       Listed(LastNamed(n))] ]

SummaryValues(b) ==
    << b.total_documents, b.completed, b.failed, b.total_time, b.documents >>

SlotHolders == {i \in Items : task[i] \in {"running", "granted"}}

\* C13: the slot is taken before process_single_document runs and given
\* back on every exit: free slots + items holding a slot = max_workers in
\* every state of a batch, and all slots are free once the batch is over.
C13_SlotsAccountedFor ==
    /\ pc = "gather" =>
          /\ semaphore.value >= 0
          /\ semaphore.value + Cardinality(SlotHolders) = max_workers
          /\ \A i \in Items : task[i] = "running" => i \in SlotHolders
    /\ AfterBatch =>
          /\ SlotHolders = {}
          /\ semaphore.value = max_workers
          /\ semaphore.waiters = << >>

\* One item raised and left, another holds a slot, a third got its slot
\* from a release and has not resumed yet.
C13_Witness ==
    /\ pc = "gather"
    /\ max_workers = 2
    /\ \E i, j, k \in Items :
          /\ i \in CaughtFault \cup BareFault
          /\ task[j] = "running"
          /\ task[k] = "granted"
    /\ semaphore.value = 0

\* The status of an item's result; an exception object has none.
StatusOf(r) == IF IsException(r) THEN "exception" ELSE r.status

Terminal == {"completed", "failed"}

\* C14: a record built by process_single_document starts as processing, its
\* status changes exactly once, to completed or failed, and never again; no
\* returned record is still processing.
C14_StatusSetOnce ==
    /\ [](\A i \in Items :
            /\ task[i] = "running" => StatusOf(results[i]) = "processing"
            /\ task[i] = "done" => StatusOf(results[i]) \in Terminal \cup {"exception"}
            /\ task[i] \in {"created", "waiting", "granted"} => results[i] = NoResult)
    /\ [][\A i \in DOMAIN results :
            LET old == StatusOf(results[i])
                new == StatusOf(results'[i])
            IN  \/ results'[i] = results[i]
                \/ old = "none" /\ new \in {"processing", "failed", "exception"}
                \/ old = "processing" /\ new \in Terminal]_vars

\* One record has been marked completed while another is still processing.
C14_Witness ==
    /\ pc = "gather"
    /\ \E i, j \in Items :
          /\ task[i] = "done" /\ StatusOf(results[i]) = "completed"
          /\ task[j] = "running" /\ StatusOf(results[j]) = "processing"

\* C15: in every record of the final summary the error field holds a
\* failure description if and only if the status is failed: completed
\* records have error None, failed records (from the per-item wrapper or
\* synthesized from a bare exception) carry the description of their fault.
C15_ErrorIffFailed ==
    AfterBatch =>
        \A n \in DOMAIN batch_results.documents :
            LET d == batch_results.documents[n]
                i == LastNamed(n)
            IN  /\ d.status \in Terminal
                /\ "error" \in DOMAIN d
                /\ d.status = "failed" <=> d.error # NoneValue
                /\ (d.status = "failed" /\ i \in CaughtFault) =>
                      (d.error \in FaultMessages /\ d.error = results[i].error)
                /\ (d.status = "failed" /\ i \in BareFault) =>
                      (d.error \in DispatchMessages /\ d.error = results[i].message)

\* The summary lists a completed record, a record failed by the wrapper and
\* a record synthesized from a bare exception.
C15_Witness ==
    /\ pc = "aggregated"
    /\ Cardinality(DOMAIN batch_results.documents) = 3
    /\ Succeeded # {} /\ CaughtFault # {} /\ BareFault # {}
    /\ \E n \in DOMAIN batch_results.documents :
          batch_results.documents[n].error = "dispatch error"
    /\ \E n \in DOMAIN batch_results.documents :
          batch_results.documents[n].error = "parse error"

\* The summary after the first k turns of the aggregation loop.
SummaryAfter(k) ==
    AggregateFrom(EmptySummary(file_paths), file_paths, SubSeq(results, 1, k), 1)

\* C16: when entry i of gather's list is a bare exception, the loop stores
\* a failed record with the exception's description under the name of the
\* i-th submitted file, adds one to failed, and leaves the other counts and
\* every entry under another name as they were.
C16_BareFaultAttributed ==
    AfterBatch =>
        /\ batch_results = SummaryAfter(N)
        /\ \A i \in BareFault :
              LET before == SummaryAfter(i - 1)
                  after == SummaryAfter(i)
                  n == PathName(file_paths[i])
              IN  /\ after.failed = before.failed + 1
                  /\ after.completed = before.completed
                  /\ after.total_time = before.total_time
                  /\ after.total_documents = before.total_documents
                  /\ DOMAIN after.documents = DOMAIN before.documents \cup {n}
                  /\ after.documents[n] =
                        [status |-> "failed", error |-> results[i].message]
                  /\ \A m \in DOMAIN before.documents :
                        m # n => after.documents[m] = before.documents[m]
                  /\ LastNamed(n) = i =>
                        batch_results.documents[n] =
                           [status |-> "failed", error |-> results[i].message]

\* The second of three differently named items ended as a bare exception,
\* the other two as structured records.
C16_Witness ==
    /\ pc = "aggregated"
    /\ N = 3
    /\ BareFault = {2}
    /\ 1 \in Succeeded
    /\ 3 \in CaughtFault
    /\ Cardinality(DOMAIN batch_results.documents) = 3
    /\ batch_results.documents[PathName(file_paths[2])].error = "dispatch error"
    /\ batch_results.failed = 2

\* C17: total_time is the sum of processing_time over exactly the
\* structured records, completed and failed; an entry that arrived as a
\* bare exception adds nothing.
C17_TotalTimeOverRecords ==
    AfterBatch =>
        /\ batch_results.total_time = SumOfTimes(Succeeded) + SumOfTimes(CaughtFault)
        /\ \A i \in BareFault :
              SummaryAfter(i).total_time = SummaryAfter(i - 1).total_time
        /\ \A i \in Structured :
              SummaryAfter(i).total_time
                 = SummaryAfter(i - 1).total_time + results[i].processing_time

\* A completed record of duration 2, a failed record of duration 1 and a
\* bare exception: the total is 3.
C17_Witness ==
    /\ pc = "aggregated"
    /\ N = 3
    /\ \E i, j, k \in Items :
          /\ i \in Succeeded /\ results[i].processing_time = 2
          /\ j \in CaughtFault /\ results[j].processing_time = 1
          /\ k \in BareFault
    /\ batch_results.total_time = 3

\* Item i's call of process_single_document has begun.
Started(i) == task[i] \in {"running", "done"}

\* C18: the per-item calls begin in the order of submission: item j's call
\* has never begun while the call of an earlier item i has not, for every
\* max_workers and every pattern of completions.
C18_StartedInSubmissionOrder ==
    /\ [](\A i, j \in Items : (i < j /\ Started(j)) => Started(i))
    /\ [][\A j \in DOMAIN task :
            (~Started(j) /\ j \in DOMAIN task' /\ task'[j] \in {"running", "done"})
               => \A i \in 1..(j - 1) : Started(i)]_vars

\* Completion is out of order: with one worker short, the third item has
\* begun after the second ended while the first is still being processed.
C18_Witness ==
    /\ pc = "gather"
    /\ N = 3
    /\ max_workers = 2
    /\ task[1] = "running"
    /\ task[2] = "done"
    /\ task[3] = "running"

\* The first item is inside its external call.
FirstIsStuck == IF 1 \in Items THEN task[1] = "running" ELSE FALSE

\* C19: there is no timeout or cancellation.  While an item's call has not
\* returned the item holds its slot, the batch has not finished and there
\* is no summary; an item that never returns keeps it so for ever.  With
\* one worker no item submitted after it starts; with more workers all the
\* other items still get through.
C19_StuckItemBlocksBatch ==
    /\ [](\A i \in Items : task[i] = "running" =>
            /\ pc = "gather"
            /\ batch_results = NoSummary
            /\ report = NoReport
            /\ semaphore.value < max_workers
            /\ max_workers = 1 =>
                  \A j \in Items : j > i => task[j] \in {"created", "waiting"})
    /\ [](FirstIsStuck => [](FirstIsStuck /\ pc = "gather"))
    /\ (FirstIsStuck /\ max_workers > 1)
          ~> (FirstIsStuck /\ \A j \in Items : j # 1 => task[j] = "done")

\* The first item is stuck: with one worker the two items behind it wait.
C19_Witness ==
    /\ pc = "gather"
    /\ N = 3
    /\ max_workers = 1
    /\ task = << "running", "waiting", "waiting" >>
    /\ ready = << >>

\* The description of the fault of a failed item.
FaultText(i) == IF IsException(results[i]) THEN results[i].message ELSE results[i].error

\* C20: every item that ends as failed is reported twice: an error log
\* entry is written when its failure occurs, before the batch finishes, and
\* the final report lists the item with its error text; for failures caught
\* in process_single_document and for bare exceptions alike.
C20_FailuresReportedTwice ==
    /\ \A i \in Items :
          (task[i] = "done" /\ i \in CaughtFault \cup BareFault) => i \in errlog
    /\ pc = "finished" =>
          \A i \in CaughtFault \cup BareFault :
              LET n == PathName(file_paths[i]) IN
              /\ n \in DOMAIN report.details
              /\ report.details[n].status = "failed"
              /\ report.details[n].error = FaultText(i)

\* Item i has taken a slot and has ended, with a terminal status or with an
\* exception as its result.
HasEnded(i) ==
    /\ Started(i)
    /\ task[i] = "done"
    /\ StatusOf(results[i]) \in Terminal \cup {"exception"}

\* C21: when every external call returns or raises and the loop keeps
\* running what is ready, every submitted item gets a slot of the gate,
\* every item ends, and process_documents_batch returns its summary, for
\* every number of items and of workers.
C21_NoItemStarves ==
    (pc = "gather" /\ N >= 1)
       ~> /\ AfterBatch
          /\ batch_results # NoSummary
          /\ \A i \in Items : HasEnded(i)
          /\ Holding = {}
          /\ semaphore = [value |-> max_workers, waiters |-> << >>]

\* The batch of three items has returned with one worker: the second and
\* the third item had to queue on the semaphore behind the first.
C21_Witness ==
    /\ pc = "aggregated"
    /\ N = 3
    /\ max_workers = 1
    /\ \A i \in Items : task[i] = "done"
    /\ 1 \in Succeeded /\ 2 \in Succeeded /\ 3 \in Succeeded
    /\ batch_results.completed = 3

\* The number of queries in the lists before list l.
RECURSIVE QueriesBefore(_)
QueriesBefore(l) == IF l = 1 THEN 0 ELSE QueriesBefore(l - 1) + Len(QueryLists[l - 1])

TotalQueries == QueriesBefore(Len(QueryLists) + 1)

\* The queries handed to rag.aquery so far, in the order of the calls.
Issued == SelectSeq(q_log, LAMBDA e : e.kind = "query")

SameQuery(e, f) == e.list = f.list /\ e.i = f.i

IsLastOfList(e) == e.i = Len(QueryLists[e.list])

\* C22: run_english_medical_queries attempts every query of its three
\* lists exactly once and in list order whatever the earlier queries did: a
\* query that raises is logged and the next query is still issued; the
\* pause of 10 seconds is taken only after a query that was answered and is
\* not the last of its list.
C22_EveryQueryAttempted ==
    /\ \A k \in 1..Len(Issued) :
          /\ QueriesBefore(Issued[k].list) + Issued[k].i = k
          /\ Issued[k].query = QueryLists[Issued[k].list][Issued[k].i]
    /\ q_pc = "done" => Len(Issued) = TotalQueries
    /\ \A k \in 1..Len(q_log) :
          /\ q_log[k].kind = "query" =>
                IF k = Len(q_log) THEN q_pc = "awaiting"
                ELSE /\ q_log[k + 1].kind \in {"answer", "error"}
                     /\ SameQuery(q_log[k + 1], q_log[k])
          /\ q_log[k].kind = "error" =>
                \/ k = Len(q_log) /\ q_pc \in {"next", "done"}
                \/ k < Len(q_log) /\ q_log[k + 1].kind = "query"
          /\ q_log[k].kind = "sleep" =>
                /\ k > 1
                /\ q_log[k - 1].kind = "answer"
                /\ SameQuery(q_log[k - 1], q_log[k])
                /\ ~IsLastOfList(q_log[k])
                /\ q_log[k].query = RateLimitPause
    /\ q_pc = "sleeping" => (q_log # << >> /\ q_log[Len(q_log)].kind = "sleep")

\* The function has ended after the first query of every list raised: all
\* seven queries were issued, and the only pause followed the second query
\* of the first list.
C22_Witness ==
    /\ q_pc = "done"
    /\ Len(Issued) = 7
    /\ \A k \in 1..Len(q_log) :
          (q_log[k].kind = "query" /\ q_log[k].i = 1) => q_log[k + 1].kind = "error"
    /\ Len(SelectSeq(q_log, LAMBDA e : e.kind = "error")) = 3
    /\ Len(SelectSeq(q_log, LAMBDA e : e.kind = "sleep")) = 1

\* The construction of RAGAnything has ended, by returning or by raising.
ConstructionEnded ==
    \E k \in 1..Len(p_seen) : p_seen[k].call = "construct"

\* The calls made after the construction.
LaterCalls == {k \in 1..Len(p_seen) : p_seen[k].call \notin {"setup", "construct"}}

====
